---- MODULE Spec2Model ----
(***************************************************************************)
(* Authorization model of the admin panel: the identity store (auth.users) *)
(* and the profiles table with its row-level policies                      *)
(* (supabase/migrations/001_add_roles.sql), the two privileged endpoints   *)
(* of server.js, and the AdminContext operations of the browser client.    *)
(***************************************************************************)
EXTENDS Integers, Sequences, FiniteSets, TLC

\* ------------------------------------------------------------------ bounds
\* Account ids the identity provider can hand out (ids are never reused).
MaxIds == 3
\* Rows the webhooks table and the voices table can hold.
MaxHooks == 2
MaxVoices == 1
\* Set-active requests the database serves at the same time.
MaxTxs == 2
\* Requests of one address the limiter counts in one window.
MaxHits == 7

\* ------------------------------------------------------- program constants
MinPasswordLen == 6
MaxPasswordLen == 128
\* authLimiter: requests per window and address
AuthMax == 5

\* ------------------------------------------------------------------ values
Ids == 1..MaxIds
NoUser == 0
Roles == {"owner", "admin", "user"}
NoProfile == "none"
NoRole == "null"
NoEmail == <<>>
HookIds == 1..MaxHooks
VoiceIds == 1..MaxVoices
NoRow == "none"
Txs == 1..MaxTxs
\* the addresses (req.ip) requests come from
Ips == {"ipA", "ipB"}
Languages == {"en", "tr"}

\* Accounts present when the system starts.  The admin panel is open in the
\* browser of account 1; every other account acts through the endpoints and
\* the table, as the panel itself does.
InitialAccounts == {1, 2}
Sessions == {1}

\* e-mail addresses are character sequences
EmailA == <<"a", "@", "b", ".", "c">>
EmailB == <<"b", "@", "b", ".", "c">>
EmailC == <<"c", "@", "b", ".", "c">>
EmailInputs == {EmailA, EmailC, <<>>, <<"a", "b", ".", "c">>,
                <<"a", " ", "@", "b", "c">>}
PasswordLens == {0, 5, 6, 128, 129}
RoleInputs == Roles \cup {"", "root"}
\* request bodies of POST /api/admin/users: every combination, and the
\* well-formed ones the admin panel's dialog sends
Bodies == [email : EmailInputs, pwLen : PasswordLens, role : RoleInputs]
DialogBodies == [email : {EmailC}, pwLen : {6}, role : Roles]

VARIABLES
    supabaseAdmin,  \* TRUE iff the service-role client was created at startup
    authEmail,      \* auth.users: id -> e-mail, NoEmail when no such account
    profiles,       \* public.profiles: id -> role, NoProfile when no row
    nextId,         \* next id the identity provider issues
    user,           \* per browser session: the signed-in account or NoUser
    userRole,       \* per browser session: AdminContext's userRole state
    pending,        \* per browser session: the operation awaiting its 2nd call
    webhooks,       \* public.webhooks: id -> "on" / "off" (active), NoRow
    voices,         \* public.voices: id -> TRUE iff the row exists
    prefs,          \* public.user_preferences: user_id -> language, NoRow
    tx,             \* per open transaction: its statement's progress
    hits,           \* authLimiter's store: address -> requests counted
    reached,        \* address -> requests the handlers ran in this window
    lookups,        \* per browser session: accounts whose role lookup is in flight
    last            \* the last operation performed and its outcome

tables == <<webhooks, voices, tx>>

limiter == <<hits, reached>>

vars == <<supabaseAdmin, authEmail, profiles, nextId, user, userRole, pending,
          webhooks, voices, prefs, tx, hits, reached, lookups, last>>

\* a transaction that is not open
NoTx == [pc |-> "idle", uid |-> NoUser, target |-> 0, cand |-> {}, off |-> {}]

NoPending == [op |-> "none", target |-> NoUser, role |-> NoRole]

Accounts == {i \in Ids : authEmail[i] # NoEmail}
Issued == {i \in Ids : i < nextId}

\* ---------------------------------------------------- server.js validators
IsSpace(ch) == ch = " "

\* /^[^\s@]+@[^\s@]+\.[^\s@]+$/
validateEmail(email) ==
    \E i \in 1..Len(email) :
        /\ email[i] = "@"
        /\ i > 1
        /\ \A k \in 1..Len(email) :
              /\ ~IsSpace(email[k])
              /\ (k # i => email[k] # "@")
        /\ \E j \in (i + 2)..(Len(email) - 1) : email[j] = "."

validateRole(role) == role \in {"owner", "admin", "user"}

\* ------------------------------------ 001_add_roles.sql: row-level policies
\* p is the table as the statement's snapshot sees it, uid is auth.uid()
\* (NoUser for a request without a session), (id, role) is the row.
RowRole(p, id) == IF id \in Ids THEN p[id] ELSE NoProfile

is_admin_or_owner(p, uid) == RowRole(p, uid) \in {"admin", "owner"}

is_owner(p, uid) == RowRole(p, uid) = "owner"

\* "Users can read own profile", "Admins can read all profiles"
SelectUsing(p, uid, id) ==
    \/ (uid # NoUser /\ uid = id)
    \/ is_admin_or_owner(p, uid)

\* "Users can update own profile": USING and WITH CHECK
UpdateOwnUsing(p, uid, id) == uid # NoUser /\ uid = id

UpdateOwnCheck(p, uid, id, role) ==
    /\ uid # NoUser
    /\ uid = id
    /\ role = RowRole(p, uid)

\* "Owners can update all profiles": no WITH CHECK, so USING also checks the
\* new row
OwnersUpdateUsing(p, uid, id, role) == is_owner(p, uid)

\* "Admins can update user profiles": no WITH CHECK either
AdminsUpdateUsing(p, uid, id, role) ==
    /\ is_admin_or_owner(p, uid)
    /\ role = "user"

\* Permissive policies of one command are OR-ed: the old row against every
\* USING, the new row against every WITH CHECK (USING where there is none).
UpdateUsing(p, uid, id) ==
    \/ UpdateOwnUsing(p, uid, id)
    \/ OwnersUpdateUsing(p, uid, id, p[id])
    \/ AdminsUpdateUsing(p, uid, id, p[id])

UpdateCheck(p, uid, id, role) ==
    \/ UpdateOwnCheck(p, uid, id, role)
    \/ OwnersUpdateUsing(p, uid, id, role)
    \/ AdminsUpdateUsing(p, uid, id, role)

\* "Admins can insert profiles"
InsertCheck(p, uid, id, role) == is_admin_or_owner(p, uid)

\* "Owners can delete profiles", "Admins can delete user profiles"
OwnersDeleteUsing(p, uid, id) ==
    /\ is_owner(p, uid)
    /\ id # uid

AdminsDeleteUsing(p, uid, id) ==
    /\ is_admin_or_owner(p, uid)
    /\ p[id] = "user"

DeleteUsing(p, uid, id) ==
    \/ OwnersDeleteUsing(p, uid, id)
    \/ AdminsDeleteUsing(p, uid, id)

\* ------------------ statements on profiles run by an authenticated session
\* UPDATE profiles SET role = <role> WHERE id = <id>
RlsUpdate(p, uid, id, role) ==
    IF ~(p[id] # NoProfile /\ SelectUsing(p, uid, id) /\ UpdateUsing(p, uid, id))
    THEN [table |-> p, outcome |-> "norows"]
    ELSE IF ~UpdateCheck(p, uid, id, role)
    THEN [table |-> p, outcome |-> "denied"]
    ELSE [table |-> [p EXCEPT ![id] = role], outcome |-> "ok"]

\* INSERT INTO profiles (id, email, role): id references auth.users and is
\* the primary key
RlsInsert(p, uid, id, role) ==
    IF ~InsertCheck(p, uid, id, role)
    THEN [table |-> p, outcome |-> "denied"]
    ELSE IF authEmail[id] = NoEmail \/ p[id] # NoProfile
    THEN [table |-> p, outcome |-> "constraint"]
    ELSE [table |-> [p EXCEPT ![id] = role], outcome |-> "ok"]

\* DELETE FROM profiles WHERE id = <id>
RlsDelete(p, uid, id) ==
    IF ~(p[id] # NoProfile /\ SelectUsing(p, uid, id) /\ DeleteUsing(p, uid, id))
    THEN [table |-> p, outcome |-> "norows"]
    ELSE [table |-> [p EXCEPT ![id] = NoProfile], outcome |-> "ok"]

\* SELECT role FROM profiles WHERE id = <id>, .single(): the role, or
\* NoProfile when the result is not exactly one row (an error)
RlsSelectRole(p, uid, id) ==
    IF p[id] # NoProfile /\ SelectUsing(p, uid, id) THEN p[id] ELSE NoProfile

\* ------------------------------------------------- server.js: the endpoints
\* handle_new_user: the trigger on auth.users inserts the profile, role
\* 'user'.  The INSERT has no ON CONFLICT clause and id is the primary key:
\* for an id that has a row it raises unique_violation and inserts nothing.
handle_new_user_error(p, id) ==
    IF RowRole(p, id) # NoProfile THEN "unique_violation" ELSE ""

handle_new_user(p, id) ==
    IF handle_new_user_error(p, id) # "" THEN p ELSE [p EXCEPT ![id] = "user"]

Rejected(status, error) ==
    [status |-> status, error |-> error, id |-> NoUser,
     auth |-> authEmail, table |-> profiles, next |-> nextId]

\* variants of the create-user handler: without the owner restriction, and
\* with a rollback of the account when the role update fails
PostUsers_NoOwnerCheck(body, roleUpdateFails) ==
    LET email == body.email
        pwLen == body.pwLen
        role == body.role
    IN
    IF ~supabaseAdmin THEN Rejected("503", "notConfigured")
    ELSE IF email = <<>> \/ pwLen = 0 \/ role = ""
    THEN Rejected("400", "missingFields")
    ELSE IF ~validateEmail(email) THEN Rejected("400", "invalidEmail")
    ELSE IF pwLen < MinPasswordLen THEN Rejected("400", "passwordShort")
    ELSE IF pwLen > MaxPasswordLen THEN Rejected("400", "passwordLong")
    ELSE IF ~validateRole(role) THEN Rejected("400", "invalidRole")
    ELSE IF \E i \in Ids : authEmail[i] = email
    THEN Rejected("400", "authError")
    ELSE LET id == nextId
             auth == [authEmail EXCEPT ![id] = email]
             created == handle_new_user(profiles, id)
         IN  IF roleUpdateFails
             THEN [status |-> "500", error |-> "roleAssignFailed", id |-> id,
                   auth |-> auth, table |-> created, next |-> nextId + 1]
             ELSE [status |-> "200", error |-> "", id |-> id, auth |-> auth,
                   table |-> [created EXCEPT ![id] = role], next |-> nextId + 1]

PostUsers_RollsBack(body, roleUpdateFails) ==
    LET email == body.email
        pwLen == body.pwLen
        role == body.role
    IN
    IF ~supabaseAdmin THEN Rejected("503", "notConfigured")
    ELSE IF email = <<>> \/ pwLen = 0 \/ role = ""
    THEN Rejected("400", "missingFields")
    ELSE IF ~validateEmail(email) THEN Rejected("400", "invalidEmail")
    ELSE IF pwLen < MinPasswordLen THEN Rejected("400", "passwordShort")
    ELSE IF pwLen > MaxPasswordLen THEN Rejected("400", "passwordLong")
    ELSE IF ~validateRole(role) THEN Rejected("400", "invalidRole")
    ELSE IF role = "owner" THEN Rejected("403", "ownerRestricted")
    ELSE IF \E i \in Ids : authEmail[i] = email
    THEN Rejected("400", "authError")
    ELSE LET id == nextId
             auth == [authEmail EXCEPT ![id] = email]
             created == handle_new_user(profiles, id)
         IN  IF roleUpdateFails
             THEN [status |-> "500", error |-> "roleAssignFailed", id |-> id,
                   auth |-> authEmail, table |-> profiles, next |-> nextId + 1]
             ELSE [status |-> "200", error |-> "", id |-> id, auth |-> auth,
                   table |-> [created EXCEPT ![id] = role], next |-> nextId + 1]

\* variant of the create-user handler that looks at the role before the
\* password
PostUsers_RoleFirst(body, roleUpdateFails) ==
    LET email == body.email
        pwLen == body.pwLen
        role == body.role
    IN
    IF ~supabaseAdmin THEN Rejected("503", "notConfigured")
    ELSE IF email = <<>> \/ pwLen = 0 \/ role = ""
    THEN Rejected("400", "missingFields")
    ELSE IF ~validateEmail(email) THEN Rejected("400", "invalidEmail")
    ELSE IF ~validateRole(role) THEN Rejected("400", "invalidRole")
    ELSE IF role = "owner" THEN Rejected("403", "ownerRestricted")
    ELSE IF pwLen < MinPasswordLen THEN Rejected("400", "passwordShort")
    ELSE IF pwLen > MaxPasswordLen THEN Rejected("400", "passwordLong")
    ELSE IF \E i \in Ids : authEmail[i] = email
    THEN Rejected("400", "authError")
    ELSE LET id == nextId
             auth == [authEmail EXCEPT ![id] = email]
             created == handle_new_user(profiles, id)
         IN  IF roleUpdateFails
             THEN [status |-> "500", error |-> "roleAssignFailed", id |-> id,
                   auth |-> auth, table |-> created, next |-> nextId + 1]
             ELSE [status |-> "200", error |-> "", id |-> id, auth |-> auth,
                   table |-> [created EXCEPT ![id] = role], next |-> nextId + 1]

\* variant of the create-user handler that restricts the owner role only
\* after the account has been created
PostUsers_LateOwnerCheck(body, roleUpdateFails) ==
    LET email == body.email
        pwLen == body.pwLen
        role == body.role
    IN
    IF ~supabaseAdmin THEN Rejected("503", "notConfigured")
    ELSE IF email = <<>> \/ pwLen = 0 \/ role = ""
    THEN Rejected("400", "missingFields")
    ELSE IF ~validateEmail(email) THEN Rejected("400", "invalidEmail")
    ELSE IF pwLen < MinPasswordLen THEN Rejected("400", "passwordShort")
    ELSE IF pwLen > MaxPasswordLen THEN Rejected("400", "passwordLong")
    ELSE IF ~validateRole(role) THEN Rejected("400", "invalidRole")
    ELSE IF \E i \in Ids : authEmail[i] = email
    THEN Rejected("400", "authError")
    ELSE LET id == nextId
             auth == [authEmail EXCEPT ![id] = email]
             created == handle_new_user(profiles, id)
         IN  IF role = "owner"
             THEN [status |-> "403", error |-> "ownerRestricted", id |-> id,
                   auth |-> auth, table |-> created, next |-> nextId + 1]
             ELSE IF roleUpdateFails
             THEN [status |-> "500", error |-> "roleAssignFailed", id |-> id,
                   auth |-> auth, table |-> created, next |-> nextId + 1]
             ELSE [status |-> "200", error |-> "", id |-> id, auth |-> auth,
                   table |-> [created EXCEPT ![id] = role], next |-> nextId + 1]

\* variant of the create-user handler that answers 200 without the profiles
\* update
PostUsers_NoRoleUpdate(body, roleUpdateFails) ==
    LET email == body.email
        pwLen == body.pwLen
        role == body.role
    IN
    IF ~supabaseAdmin THEN Rejected("503", "notConfigured")
    ELSE IF email = <<>> \/ pwLen = 0 \/ role = ""
    THEN Rejected("400", "missingFields")
    ELSE IF ~validateEmail(email) THEN Rejected("400", "invalidEmail")
    ELSE IF pwLen < MinPasswordLen THEN Rejected("400", "passwordShort")
    ELSE IF pwLen > MaxPasswordLen THEN Rejected("400", "passwordLong")
    ELSE IF ~validateRole(role) THEN Rejected("400", "invalidRole")
    ELSE IF role = "owner" THEN Rejected("403", "ownerRestricted")
    ELSE IF \E i \in Ids : authEmail[i] = email
    THEN Rejected("400", "authError")
    ELSE LET id == nextId
             auth == [authEmail EXCEPT ![id] = email]
             created == handle_new_user(profiles, id)
         IN  IF roleUpdateFails
             THEN [status |-> "500", error |-> "roleAssignFailed", id |-> id,
                   auth |-> auth, table |-> created, next |-> nextId + 1]
             ELSE [status |-> "200", error |-> "", id |-> id, auth |-> auth,
                   table |-> created, next |-> nextId + 1]

\* variant of the create-user handler whose identity provider accepts an
\* email that already has an account
PostUsers_CreatesDuplicate(body, roleUpdateFails) ==
    LET email == body.email
        pwLen == body.pwLen
        role == body.role
    IN
    IF ~supabaseAdmin THEN Rejected("503", "notConfigured")
    ELSE IF email = <<>> \/ pwLen = 0 \/ role = ""
    THEN Rejected("400", "missingFields")
    ELSE IF ~validateEmail(email) THEN Rejected("400", "invalidEmail")
    ELSE IF pwLen < MinPasswordLen THEN Rejected("400", "passwordShort")
    ELSE IF pwLen > MaxPasswordLen THEN Rejected("400", "passwordLong")
    ELSE IF ~validateRole(role) THEN Rejected("400", "invalidRole")
    ELSE IF role = "owner" THEN Rejected("403", "ownerRestricted")
    ELSE LET id == nextId
             auth == [authEmail EXCEPT ![id] = email]
             created == handle_new_user(profiles, id)
         IN  IF roleUpdateFails
             THEN [status |-> "500", error |-> "roleAssignFailed", id |-> id,
                   auth |-> auth, table |-> created, next |-> nextId + 1]
             ELSE [status |-> "200", error |-> "", id |-> id, auth |-> auth,
                   table |-> [created EXCEPT ![id] = role], next |-> nextId + 1]

\* app.post("/api/admin/users"): the response and the stores afterwards.
\* roleUpdateFails: the profiles update after the account creation errors.
PostUsers(body, roleUpdateFails) ==
    LET email == body.email
        pwLen == body.pwLen
        role == body.role
    IN
    IF ~supabaseAdmin THEN Rejected("503", "notConfigured")
    ELSE IF email = <<>> \/ pwLen = 0 \/ role = ""
    THEN Rejected("400", "missingFields")
    ELSE IF ~validateEmail(email) THEN Rejected("400", "invalidEmail")
    ELSE IF pwLen < MinPasswordLen THEN Rejected("400", "passwordShort")
    ELSE IF pwLen > MaxPasswordLen THEN Rejected("400", "passwordLong")
    ELSE IF ~validateRole(role) THEN Rejected("400", "invalidRole")
    ELSE IF role = "owner" THEN Rejected("403", "ownerRestricted")
    ELSE IF \E i \in Ids : authEmail[i] = email
    THEN Rejected("400", "authError")
    ELSE LET id == nextId
             auth == [authEmail EXCEPT ![id] = email]
             created == handle_new_user(profiles, id)
         IN  IF roleUpdateFails
             THEN [status |-> "500", error |-> "roleAssignFailed", id |-> id,
                   auth |-> auth, table |-> created, next |-> nextId + 1]
             ELSE [status |-> "200", error |-> "", id |-> id, auth |-> auth,
                   table |-> [created EXCEPT ![id] = role], next |-> nextId + 1]

\* /^[0-9a-f]{8}-[0-9a-f]{4}-[0-9a-f]{4}-[0-9a-f]{4}-[0-9a-f]{12}$/i, and a
\* variant without the anchor at the end
HexDigits ==
    {"0", "1", "2", "3", "4", "5", "6", "7", "8", "9",
     "a", "b", "c", "d", "e", "f", "A", "B", "C", "D", "E", "F"}

UuidLen == 36

UuidDashes == {9, 14, 19, 24}

uuidRegexTest_Unanchored(str) ==
    /\ Len(str) >= UuidLen
    /\ \A k \in 1..UuidLen :
          IF k \in UuidDashes THEN str[k] = "-" ELSE str[k] \in HexDigits

uuidRegexTest(str) ==
    /\ Len(str) = UuidLen
    /\ \A k \in 1..UuidLen :
          IF k \in UuidDashes THEN str[k] = "-" ELSE str[k] \in HexDigits

\* the id the identity provider gave account i, in lower and in upper case
IdDigits == <<"1", "2", "3", "4", "5", "6", "7", "8", "9">>

UuidOf(i) ==
    [k \in 1..UuidLen |->
        IF k \in UuidDashes THEN "-"
        ELSE IF k = 1 THEN "a"
        ELSE IF k = UuidLen THEN IdDigits[i]
        ELSE "0"]

UpperUuidOf(i) == [UuidOf(i) EXCEPT ![1] = "A"]

\* strings that are no UUID: too short, one character too long at either
\* end, a letter that is no hex digit, and the dashes left out
MalformedUserIds ==
    {<<"1">>,
     UuidOf(1) \o <<"x">>,
     <<" ">> \o UuidOf(1),
     [UuidOf(1) EXCEPT ![1] = "g"],
     [k \in 1..32 |-> IF k = 32 THEN "1" ELSE "0"]}

UserIdStrings ==
    {UuidOf(i) : i \in Ids} \cup {UpperUuidOf(i) : i \in Ids}
       \cup MalformedUserIds

\* the account a string names for the identity provider, NoUser when none
AccountOfUuid(str) ==
    IF \E i \in Ids : str \in {UuidOf(i), UpperUuidOf(i)}
    THEN CHOOSE i \in Ids : str \in {UuidOf(i), UpperUuidOf(i)}
    ELSE NoUser

\* req.params.userId as the handler sees it: whether it passes uuidRegex, and
\* the account it names
ParseUserId(str) == [uuid |-> uuidRegexTest(str), id |-> AccountOfUuid(str)]

\* the path parameters of DELETE
UserIdInputs == {ParseUserId(str) : str \in UserIdStrings}

\* variant of the delete-user handler that leaves the profile row behind
DeleteUsers_KeepsProfile(userId) ==
    IF ~supabaseAdmin THEN Rejected("503", "notConfigured")
    ELSE IF ~userId.uuid THEN Rejected("400", "invalidId")
    ELSE IF userId.id \notin Ids \/ authEmail[userId.id] = NoEmail
    THEN Rejected("400", "authError")
    ELSE [status |-> "200", error |-> "", id |-> userId.id,
          auth |-> [authEmail EXCEPT ![userId.id] = NoEmail],
          table |-> profiles,
          next |-> nextId]

\* variant of the delete-user handler without the configuration check
DeleteUsers_NoConfigCheck(userId) ==
    IF ~userId.uuid THEN Rejected("400", "invalidId")
    ELSE IF userId.id \notin Ids \/ authEmail[userId.id] = NoEmail
    THEN Rejected("400", "authError")
    ELSE [status |-> "200", error |-> "", id |-> userId.id,
          auth |-> [authEmail EXCEPT ![userId.id] = NoEmail],
          table |-> [profiles EXCEPT ![userId.id] = NoProfile],
          next |-> nextId]

\* app.delete("/api/admin/users/:userId"); deleting the account cascades to
\* its profile row (ON DELETE CASCADE)
DeleteUsers(userId) ==
    IF ~supabaseAdmin THEN Rejected("503", "notConfigured")
    ELSE IF ~userId.uuid THEN Rejected("400", "invalidId")
    ELSE IF userId.id \notin Ids \/ authEmail[userId.id] = NoEmail
    THEN Rejected("400", "authError")
    ELSE [status |-> "200", error |-> "", id |-> userId.id,
          auth |-> [authEmail EXCEPT ![userId.id] = NoEmail],
          table |-> [profiles EXCEPT ![userId.id] = NoProfile],
          next |-> nextId]

\* the identity provider has an id left to issue
CanIssue(r) == r.next <= MaxIds + 1

\* ---------------------------------------- AdminContext.tsx: the decisions
isAdmin(ur) == ur = "admin" \/ ur = "owner"

canManageUser(ur, targetRole) ==
    IF ur = NoRole THEN FALSE
    ELSE IF ur = "owner" THEN TRUE
    ELSE IF ur = "admin" /\ targetRole = "user" THEN TRUE
    ELSE FALSE

canKickUser(ur, targetRole) ==
    IF ur = NoRole THEN FALSE
    ELSE IF ur = "owner" /\ targetRole # "owner" THEN TRUE
    ELSE IF ur = "admin" /\ targetRole = "user" THEN TRUE
    ELSE FALSE

\* ---------------------------------------------------------------- the state
Op(op, actor, target, role, status, error) ==
    [op |-> op, actor |-> actor, target |-> target, role |-> role,
     status |-> status, error |-> error]

InitAccounts ==
    /\ supabaseAdmin \in BOOLEAN
    /\ authEmail = [i \in Ids |-> IF i = 1 THEN EmailA
                                  ELSE IF i = 2 THEN EmailB ELSE NoEmail]
    /\ profiles \in {p \in [Ids -> Roles \cup {NoProfile}] :
                        \A i \in Ids : (p[i] # NoProfile) <=> (i \in InitialAccounts)}
    /\ nextId = 3
    /\ user = [s \in Sessions |-> NoUser]
    /\ userRole = [s \in Sessions |-> NoRole]
    /\ pending = [s \in Sessions |-> NoPending]
    /\ voices = [v \in VoiceIds |-> FALSE]
    /\ tx = [t \in Txs |-> NoTx]
    /\ hits = [ip \in Ips |-> 0]
    /\ reached = [ip \in Ips |-> 0]
    /\ lookups = [s \in Sessions |-> {}]
    /\ prefs = [i \in Ids |-> IF i \in InitialAccounts THEN "en" ELSE NoRow]
    /\ last = Op("init", NoUser, NoUser, NoRole, "", "")

\* the state after construction: two accounts, no settings rows yet
Init ==
    /\ InitAccounts
    /\ webhooks = [h \in HookIds |-> NoRow]

\* handle_new_user_preferences: the trigger on auth.users inserts the
\* preferences row, language 'en', ON CONFLICT (user_id) DO NOTHING
handle_new_user_preferences(q, id) ==
    IF q[id] # NoRow THEN q ELSE [q EXCEPT ![id] = "en"]

\* the preferences after the identity store went from auth to auth2: a row
\* for each new account, none for a deleted one (ON DELETE CASCADE)
PrefsAfter(q, auth, auth2) ==
    [i \in Ids |->
        IF auth2[i] = NoEmail THEN NoRow
        ELSE IF auth[i] = NoEmail THEN handle_new_user_preferences(q, i)[i]
        ELSE q[i]]

Apply(r) ==
    /\ authEmail' = r.auth
    /\ profiles' = r.table
    /\ nextId' = r.next
    /\ prefs' = PrefsAfter(prefs, authEmail, r.auth)

\* ------------------------------------------- requests sent to the endpoints
\* POST /api/admin/users by any client; caller is the account of the session
\* credential the request carries, NoUser when it carries none.
RequestCreateUser(caller, body, roleUpdateFails) ==
    LET r == PostUsers(body, roleUpdateFails) IN
    /\ caller \in Issued \cup {NoUser}
    /\ roleUpdateFails => r.status = "500"
    /\ CanIssue(r)
    /\ Apply(r)
    /\ UNCHANGED <<lookups, limiter, tables, supabaseAdmin, user, userRole, pending>>

LogCreate(caller, body, roleUpdateFails) ==
    LET r == PostUsers(body, roleUpdateFails) IN
    Op("POST", caller, r.id, body.role, r.status, r.error)

\* DELETE /api/admin/users/:userId by any client
RequestDeleteUser(caller, userId) ==
    LET r == DeleteUsers(userId) IN
    /\ caller \in Issued \cup {NoUser}
    /\ Apply(r)
    /\ UNCHANGED <<lookups, limiter, tables, supabaseAdmin, user, userRole, pending>>

LogDelete(caller, userId) ==
    LET r == DeleteUsers(userId) IN
    Op("DELETE", caller, userId.id, NoRole, r.status, r.error)

\* --------------------------------------------- server.js: the rate limiters
\* authLimiter answers 429 once the address's count in the window, this
\* request included, is above max
LimiterBlocks_Never(totalHits) == FALSE

LimiterBlocks(totalHits) == totalHits > AuthMax

TooMany(caller, target, role) ==
    Op(IF role = NoRole THEN "DELETE" ELSE "POST", caller, target, role, "429",
       "tooManyRequests")

\* POST /api/admin/users from address ip.  apiLimited: apiLimiter, which
\* counts every request of the address to the server, has already run out.
LimitedCreateUser(ip, caller, body, roleUpdateFails, apiLimited) ==
    LET r == PostUsers(body, roleUpdateFails) IN
    /\ caller \in Issued \cup {NoUser}
    /\ IF apiLimited
       THEN /\ ~roleUpdateFails
            /\ last' = TooMany(caller, NoUser, body.role)
            /\ UNCHANGED <<lookups, limiter, authEmail, profiles, nextId, prefs>>
       ELSE /\ hits[ip] < MaxHits
            /\ hits' = [hits EXCEPT ![ip] = @ + 1]
            /\ IF LimiterBlocks(hits[ip] + 1)
               THEN /\ ~roleUpdateFails
                    /\ last' = TooMany(caller, NoUser, body.role)
                    /\ UNCHANGED <<lookups, reached, authEmail, profiles, nextId, prefs>>
               ELSE /\ roleUpdateFails => r.status = "500"
                    /\ CanIssue(r)
                    /\ Apply(r)
                    /\ reached' = [reached EXCEPT ![ip] = @ + 1]
                    /\ last' = LogCreate(caller, body, roleUpdateFails)
    /\ UNCHANGED <<lookups, tables, supabaseAdmin, user, userRole, pending>>

\* DELETE /api/admin/users/:userId from address ip
LimitedDeleteUser(ip, caller, userId, apiLimited) ==
    LET r == DeleteUsers(userId) IN
    /\ caller \in Issued \cup {NoUser}
    /\ IF apiLimited
       THEN /\ last' = TooMany(caller, userId.id, NoRole)
            /\ UNCHANGED <<lookups, limiter, authEmail, profiles, nextId, prefs>>
       ELSE /\ hits[ip] < MaxHits
            /\ hits' = [hits EXCEPT ![ip] = @ + 1]
            /\ IF LimiterBlocks(hits[ip] + 1)
               THEN /\ last' = TooMany(caller, userId.id, NoRole)
                    /\ UNCHANGED <<lookups, reached, authEmail, profiles, nextId, prefs>>
               ELSE /\ Apply(r)
                    /\ reached' = [reached EXCEPT ![ip] = @ + 1]
                    /\ last' = LogDelete(caller, userId)
    /\ UNCHANGED <<lookups, tables, supabaseAdmin, user, userRole, pending>>

\* windowMs after the address's first counted request its count is dropped
WindowExpires(ip) ==
    /\ hits[ip] > 0
    /\ hits' = [hits EXCEPT ![ip] = 0]
    /\ reached' = [reached EXCEPT ![ip] = 0]
    /\ last' = Op("windowExpires", NoUser, NoUser, NoRole, "", "")
    /\ UNCHANGED <<lookups, tables, prefs, supabaseAdmin, authEmail, profiles, nextId,
                   user, userRole, pending>>

\* ------------------------------------------------ AdminContext.tsx: sessions
\* signing in changes `user`; the effect fetches the role, and a failed
\* lookup (or a missing row) defaults to "user"
fetchUserRole_FailsOpen(uid, lookupFails) ==
    IF uid = NoUser THEN NoRole
    ELSE IF lookupFails \/ RlsSelectRole(profiles, uid, uid) = NoProfile
    THEN "admin"
    ELSE RlsSelectRole(profiles, uid, uid)

fetchUserRole(uid, lookupFails) ==
    IF uid = NoUser THEN NoRole
    ELSE IF lookupFails \/ RlsSelectRole(profiles, uid, uid) = NoProfile
    THEN "user"
    ELSE RlsSelectRole(profiles, uid, uid)

SignIn(s, lookupFails) ==
    /\ user[s] = NoUser
    /\ s \in Accounts
    /\ user' = [user EXCEPT ![s] = s]
    /\ userRole' = [userRole EXCEPT ![s] = fetchUserRole(s, lookupFails)]
    /\ last' = Op("signIn", s, s, userRole'[s], "ok",
                  IF lookupFails THEN "lookupFailed" ELSE "")
    /\ UNCHANGED <<lookups, limiter, tables, prefs, supabaseAdmin, authEmail, profiles, nextId, pending>>

SignOut(s) ==
    /\ user[s] # NoUser
    /\ user' = [user EXCEPT ![s] = NoUser]
    /\ userRole' = [userRole EXCEPT ![s] = fetchUserRole(NoUser, FALSE)]
    /\ last' = Op("signOut", user[s], user[s], NoRole, "ok", "")
    /\ UNCHANGED <<lookups, limiter, tables, prefs, supabaseAdmin, authEmail, profiles, nextId, pending>>

\* --------------- AdminContext.tsx: the role effect, one await at a time
\* `user` becomes account uid: the effect runs and sends its lookup; the
\* role is set when the lookup returns
SignInStart(s, uid) ==
    /\ user[s] = NoUser
    /\ uid \in Accounts
    /\ user' = [user EXCEPT ![s] = uid]
    /\ lookups' = [lookups EXCEPT ![s] = @ \cup {uid}]
    /\ last' = Op("signIn", uid, uid, NoRole, "started", "")
    /\ UNCHANGED <<limiter, tables, prefs, supabaseAdmin, authEmail, profiles,
                   nextId, userRole, pending>>

\* a lookup returns and its continuation sets the role, whoever `user` is
\* by then: the effect has no cleanup
fetchUserRoleResolve(s, uid, lookupFails) ==
    /\ uid \in lookups[s]
    /\ lookups' = [lookups EXCEPT ![s] = @ \ {uid}]
    /\ userRole' = [userRole EXCEPT ![s] = fetchUserRole(uid, lookupFails)]
    /\ last' = Op("fetchUserRole", uid, uid, userRole'[s], "ok",
                  IF lookupFails THEN "lookupFailed" ELSE "")
    /\ UNCHANGED <<limiter, tables, prefs, supabaseAdmin, authEmail, profiles,
                   nextId, user, pending>>

\* ------------------------------------------ AdminContext.tsx: createUser
createUserError(ur, role, session) ==
    IF ~isAdmin(ur) THEN "unauthorized"
    ELSE IF role = "owner" THEN "ownerRestricted"
    ELSE IF ~canManageUser(ur, role) THEN "cannotAssign"
    ELSE IF session = NoUser THEN "noSession"
    ELSE ""

createUser(s, body, roleUpdateFails) ==
    LET role == body.role
        e == createUserError(userRole[s], role, user[s])
        r == PostUsers(body, roleUpdateFails)
    IN  IF e # ""
        THEN /\ ~roleUpdateFails
             /\ last' = Op("createUser", user[s], NoUser, role, "rejected", e)
             /\ UNCHANGED <<lookups, limiter, tables, prefs, supabaseAdmin, authEmail, profiles, nextId, user,
                            userRole, pending>>
        ELSE /\ roleUpdateFails => r.status = "500"
             /\ CanIssue(r)
             /\ Apply(r)
             /\ last' = Op("createUser", user[s], r.id, role, r.status, r.error)
             /\ UNCHANGED <<lookups, limiter, tables, supabaseAdmin, user, userRole, pending>>

\* ---------------------------------------- AdminContext.tsx: updateUserRole
\* up to the await of the update: the checks on the cached userRole and on
\* the target's role as read through the session's SELECT policies
updateUserRoleError_NoOwnerGuard(ur, uid, userId, newRole) ==
    IF ~canManageUser(ur, newRole) THEN "cannotAssign"
    ELSE IF RlsSelectRole(profiles, uid, userId) = NoProfile THEN "fetchError"
    ELSE IF ~canManageUser(ur, RlsSelectRole(profiles, uid, userId))
    THEN "cannotModify"
    ELSE ""

updateUserRoleError(ur, uid, userId, newRole) ==
    IF newRole = "owner" THEN "ownerRestricted"
    ELSE IF ~canManageUser(ur, newRole) THEN "cannotAssign"
    ELSE IF RlsSelectRole(profiles, uid, userId) = NoProfile THEN "fetchError"
    ELSE IF ~canManageUser(ur, RlsSelectRole(profiles, uid, userId))
    THEN "cannotModify"
    ELSE ""

updateUserRoleCheck(s, userId, newRole) ==
    LET e == updateUserRoleError(userRole[s], user[s], userId, newRole) IN
    /\ pending[s] = NoPending
    /\ pending' = [pending EXCEPT ![s] =
                      IF e = "" THEN [op |-> "update", target |-> userId, role |-> newRole]
                      ELSE NoPending]
    /\ last' = Op("updateUserRole", user[s], userId, newRole,
                  IF e = "" THEN "checked" ELSE "rejected", e)
    /\ UNCHANGED <<lookups, limiter, tables, prefs, supabaseAdmin, authEmail, profiles, nextId, user, userRole>>

\* the update itself, run with the session the client holds by then
updateUserRoleWrite(s) ==
    LET r == RlsUpdate(profiles, user[s], pending[s].target, pending[s].role) IN
    /\ pending[s].op = "update"
    /\ profiles' = r.table
    /\ pending' = [pending EXCEPT ![s] = NoPending]
    /\ last' = Op("updateUserRole", user[s], pending[s].target, pending[s].role,
                  IF r.outcome = "denied" THEN "error" ELSE "ok", r.outcome)
    /\ UNCHANGED <<lookups, limiter, tables, prefs, supabaseAdmin, authEmail, nextId, user, userRole>>

\* -------------------------------------------- AdminContext.tsx: deleteUser
deleteUserError(ur, uid, userId) ==
    IF RlsSelectRole(profiles, uid, userId) = NoProfile THEN "fetchError"
    ELSE IF ~canKickUser(ur, RlsSelectRole(profiles, uid, userId))
    THEN "cannotKick"
    ELSE ""

deleteUserCheck(s, userId) ==
    LET e == deleteUserError(userRole[s], user[s], userId) IN
    /\ pending[s] = NoPending
    /\ pending' = [pending EXCEPT ![s] =
                      IF e = "" THEN [op |-> "delete", target |-> userId, role |-> NoRole]
                      ELSE NoPending]
    /\ last' = Op("deleteUser", user[s], userId, NoRole,
                  IF e = "" THEN "checked" ELSE "rejected", e)
    /\ UNCHANGED <<lookups, limiter, tables, prefs, supabaseAdmin, authEmail, profiles, nextId, user, userRole>>

\* getSession, then the DELETE request to the server
deleteUserRequest(s) ==
    LET r == DeleteUsers([uuid |-> TRUE, id |-> pending[s].target]) IN
    /\ pending[s].op = "delete"
    /\ pending' = [pending EXCEPT ![s] = NoPending]
    /\ IF user[s] = NoUser
       THEN /\ last' = Op("deleteUser", user[s], pending[s].target, NoRole,
                          "rejected", "noSession")
            /\ UNCHANGED <<lookups, authEmail, profiles, nextId, prefs>>
       ELSE /\ Apply(r)
            /\ last' = Op("deleteUser", user[s], pending[s].target, NoRole,
                          r.status, r.error)
    /\ UNCHANGED <<lookups, limiter, tables, supabaseAdmin, user, userRole>>

\* --------------------------------------------- AdminContext.tsx: getAllUsers
\* the list is refused unless the cached role is admin or owner; otherwise
\* the SELECT returns the rows the session's policies show
getAllUsers(s) ==
    /\ last' = IF ~isAdmin(userRole[s])
               THEN Op("getAllUsers", user[s], NoUser, NoRole, "rejected",
                       "unauthorized")
               ELSE Op("getAllUsers", user[s], NoUser, NoRole, "ok", "")
    /\ UNCHANGED <<lookups, limiter, tables, prefs, supabaseAdmin, authEmail, profiles, nextId, user, userRole,
                   pending>>

\* ------------- statements an authenticated session sends to profiles itself
SqlUpdate(uid, id, role) ==
    /\ uid \in Issued
    /\ profiles' = RlsUpdate(profiles, uid, id, role).table
    /\ UNCHANGED <<lookups, limiter, tables, prefs, supabaseAdmin, authEmail, nextId, user, userRole, pending>>

LogUpdate(uid, id, role) ==
    Op("sqlUpdate", uid, id, role, RlsUpdate(profiles, uid, id, role).outcome, "")

SqlInsert(uid, id, role) ==
    /\ uid \in Issued
    /\ profiles' = RlsInsert(profiles, uid, id, role).table
    /\ UNCHANGED <<lookups, limiter, tables, prefs, supabaseAdmin, authEmail, nextId, user, userRole, pending>>

LogInsert(uid, id, role) ==
    Op("sqlInsert", uid, id, role, RlsInsert(profiles, uid, id, role).outcome, "")

SqlDelete(uid, id) ==
    /\ uid \in Issued
    /\ profiles' = RlsDelete(profiles, uid, id).table
    /\ UNCHANGED <<lookups, limiter, tables, prefs, supabaseAdmin, authEmail, nextId, user, userRole, pending>>

LogDeleteRow(uid, id) ==
    Op("sqlDelete", uid, id, NoRole, RlsDelete(profiles, uid, id).outcome, "")

\* ------------------------- 002_user_settings.sql: policies on the settings
\* webhooks: every command is for admins and owners only
WebhooksSelectUsing(p, uid) == is_admin_or_owner(p, uid)

WebhooksInsertCheck(p, uid) == is_admin_or_owner(p, uid)

WebhooksUpdateUsing(p, uid) == is_admin_or_owner(p, uid)

WebhooksDeleteUsing(p, uid) == is_admin_or_owner(p, uid)

\* voices: every authenticated session reads, admins and owners write
VoicesSelectUsing(uid) == uid # NoUser

VoicesInsertCheck(p, uid) == is_admin_or_owner(p, uid)

VoicesUpdateUsing(p, uid) == is_admin_or_owner(p, uid)

VoicesDeleteUsing(p, uid) == is_admin_or_owner(p, uid)

\* user_preferences: auth.uid() = user_id for every command
PrefsSelectUsing(uid, user_id) == uid # NoUser /\ uid = user_id

PrefsInsertCheck(uid, user_id) == uid # NoUser /\ uid = user_id

PrefsUpdateUsing(uid, user_id) == uid # NoUser /\ uid = user_id

PrefsDeleteUsing(uid, user_id) == uid # NoUser /\ uid = user_id

\* BEFORE INSERT OR UPDATE ... WHEN (NEW.active = true): every other active
\* row is set inactive
enforce_single_active_webhook_KeepsOthers(w, h) == w

enforce_single_active_webhook(w, h) ==
    [k \in HookIds |-> IF k # h /\ w[k] = "on" THEN "off" ELSE w[k]]

ActiveValue(active) == IF active THEN "on" ELSE "off"

\* INSERT INTO webhooks (name, url, active); the trigger runs before the
\* policy's WITH CHECK, and a failed check undoes the whole statement
WebhookInsert(w, p, uid, h, active) ==
    IF ~WebhooksInsertCheck(p, uid)
    THEN [table |-> w, outcome |-> "denied"]
    ELSE [table |-> [(IF active THEN enforce_single_active_webhook(w, h) ELSE w)
                        EXCEPT ![h] = ActiveValue(active)],
          outcome |-> "ok"]

\* UPDATE webhooks SET active = <active> WHERE id = <h>
WebhookUpdate(w, p, uid, h, active) ==
    IF ~(w[h] # NoRow /\ WebhooksSelectUsing(p, uid) /\ WebhooksUpdateUsing(p, uid))
    THEN [table |-> w, outcome |-> "norows"]
    ELSE [table |-> [(IF active THEN enforce_single_active_webhook(w, h) ELSE w)
                        EXCEPT ![h] = ActiveValue(active)],
          outcome |-> "ok"]

\* DELETE FROM webhooks WHERE id = <h>
WebhookDelete(w, p, uid, h) ==
    IF ~(w[h] # NoRow /\ WebhooksSelectUsing(p, uid) /\ WebhooksDeleteUsing(p, uid))
    THEN [table |-> w, outcome |-> "norows"]
    ELSE [table |-> [w EXCEPT ![h] = NoRow], outcome |-> "ok"]

\* SELECT * FROM webhooks: the rows the session is shown
WebhookSelect(w, p, uid) ==
    IF WebhooksSelectUsing(p, uid) THEN {h \in HookIds : w[h] # NoRow} ELSE {}

\* get_active_webhook(): SECURITY DEFINER, so the policies do not apply; the
\* active rows it can return (one of them, LIMIT 1)
get_active_webhook(w) == {h \in HookIds : w[h] = "on"}

\* the statements on voices
VoiceInsert(v, p, uid, id) ==
    IF ~VoicesInsertCheck(p, uid) THEN [table |-> v, outcome |-> "denied"]
    ELSE IF v[id] THEN [table |-> v, outcome |-> "constraint"]
    ELSE [table |-> [v EXCEPT ![id] = TRUE], outcome |-> "ok"]

VoiceUpdate(v, p, uid, id) ==
    IF ~(v[id] /\ VoicesSelectUsing(uid) /\ VoicesUpdateUsing(p, uid))
    THEN [table |-> v, outcome |-> "norows"]
    ELSE [table |-> v, outcome |-> "ok"]

VoiceDelete(v, p, uid, id) ==
    IF ~(v[id] /\ VoicesSelectUsing(uid) /\ VoicesDeleteUsing(p, uid))
    THEN [table |-> v, outcome |-> "norows"]
    ELSE [table |-> [v EXCEPT ![id] = FALSE], outcome |-> "ok"]

VoiceSelect(v, uid) ==
    IF VoicesSelectUsing(uid) THEN {id \in VoiceIds : v[id]} ELSE {}

\* the statements on user_preferences; upsert is INSERT ... ON CONFLICT
\* (user_id) DO UPDATE, as handleSaveLanguage sends it
PrefsUpsert(q, uid, user_id, lang) ==
    IF ~PrefsInsertCheck(uid, user_id) THEN [table |-> q, outcome |-> "denied"]
    ELSE IF authEmail[user_id] = NoEmail \/ lang \notin Languages
    THEN [table |-> q, outcome |-> "constraint"]
    ELSE IF q[user_id] # NoRow /\ ~PrefsUpdateUsing(uid, user_id)
    THEN [table |-> q, outcome |-> "denied"]
    ELSE [table |-> [q EXCEPT ![user_id] = lang], outcome |-> "ok"]

PrefsUpdate(q, uid, user_id, lang) ==
    IF ~(q[user_id] # NoRow /\ PrefsSelectUsing(uid, user_id)
           /\ PrefsUpdateUsing(uid, user_id))
    THEN [table |-> q, outcome |-> "norows"]
    ELSE IF lang \notin Languages THEN [table |-> q, outcome |-> "constraint"]
    ELSE [table |-> [q EXCEPT ![user_id] = lang], outcome |-> "ok"]

PrefsDelete(q, uid, user_id) ==
    IF ~(q[user_id] # NoRow /\ PrefsSelectUsing(uid, user_id)
           /\ PrefsDeleteUsing(uid, user_id))
    THEN [table |-> q, outcome |-> "norows"]
    ELSE [table |-> [q EXCEPT ![user_id] = NoRow], outcome |-> "ok"]

PrefsSelect(q, uid, user_id) ==
    IF q[user_id] # NoRow /\ PrefsSelectUsing(uid, user_id)
    THEN {user_id} ELSE {}

\* ------------ statements a session sends to the settings tables, with what
\* it gets back
Sessioned(uid) == uid \in Issued \cup {NoUser}

\* "deactivated" when the trigger switched another row off
HookNote(w, w2, h) ==
    IF \E k \in HookIds \ {h} : w2[k] # w[k] THEN "deactivated" ELSE ""

SqlWebhookInsert(uid, h, active) ==
    LET r == WebhookInsert(webhooks, profiles, uid, h, active) IN
    /\ Sessioned(uid)
    /\ webhooks[h] = NoRow
    /\ webhooks' = r.table
    /\ last' = Op("webhookInsert", uid, NoUser, NoRole, r.outcome,
                  HookNote(webhooks, r.table, h))
    /\ UNCHANGED <<lookups, limiter, voices, tx, prefs, supabaseAdmin, authEmail, profiles, nextId,
                   user, userRole, pending>>

SqlWebhookUpdate(uid, h, active) ==
    LET r == WebhookUpdate(webhooks, profiles, uid, h, active) IN
    /\ Sessioned(uid)
    /\ webhooks' = r.table
    /\ last' = Op("webhookUpdate", uid, NoUser, NoRole, r.outcome,
                  HookNote(webhooks, r.table, h))
    /\ UNCHANGED <<lookups, limiter, voices, tx, prefs, supabaseAdmin, authEmail, profiles, nextId,
                   user, userRole, pending>>

SqlWebhookDelete(uid, h) ==
    LET r == WebhookDelete(webhooks, profiles, uid, h) IN
    /\ Sessioned(uid)
    /\ webhooks' = r.table
    /\ last' = Op("webhookDelete", uid, NoUser, NoRole, r.outcome, "")
    /\ UNCHANGED <<lookups, limiter, voices, tx, prefs, supabaseAdmin, authEmail, profiles, nextId,
                   user, userRole, pending>>

SqlWebhookSelect(uid) ==
    /\ Sessioned(uid)
    /\ last' = Op("webhookSelect", uid, NoUser, NoRole,
                  IF WebhookSelect(webhooks, profiles, uid) = {}
                  THEN "norows" ELSE "rows", "")
    /\ UNCHANGED <<lookups, limiter, tables, prefs, supabaseAdmin, authEmail, profiles, nextId,
                   user, userRole, pending>>

\* supabase.rpc('get_active_webhook'): EXECUTE is granted to every role
RpcGetActiveWebhook(uid) ==
    /\ Sessioned(uid)
    /\ last' = Op("get_active_webhook", uid, NoUser, NoRole,
                  IF get_active_webhook(webhooks) = {}
                  THEN "norows" ELSE "rows", "")
    /\ UNCHANGED <<lookups, limiter, tables, prefs, supabaseAdmin, authEmail, profiles, nextId,
                   user, userRole, pending>>

SqlVoiceInsert(uid, id) ==
    LET r == VoiceInsert(voices, profiles, uid, id) IN
    /\ Sessioned(uid)
    /\ voices' = r.table
    /\ last' = Op("voiceInsert", uid, NoUser, NoRole, r.outcome, "")
    /\ UNCHANGED <<lookups, limiter, webhooks, tx, prefs, supabaseAdmin, authEmail, profiles, nextId,
                   user, userRole, pending>>

SqlVoiceUpdate(uid, id) ==
    LET r == VoiceUpdate(voices, profiles, uid, id) IN
    /\ Sessioned(uid)
    /\ voices' = r.table
    /\ last' = Op("voiceUpdate", uid, NoUser, NoRole, r.outcome, "")
    /\ UNCHANGED <<lookups, limiter, webhooks, tx, prefs, supabaseAdmin, authEmail, profiles, nextId,
                   user, userRole, pending>>

SqlVoiceDelete(uid, id) ==
    LET r == VoiceDelete(voices, profiles, uid, id) IN
    /\ Sessioned(uid)
    /\ voices' = r.table
    /\ last' = Op("voiceDelete", uid, NoUser, NoRole, r.outcome, "")
    /\ UNCHANGED <<lookups, limiter, webhooks, tx, prefs, supabaseAdmin, authEmail, profiles, nextId,
                   user, userRole, pending>>

SqlVoiceSelect(uid) ==
    /\ Sessioned(uid)
    /\ last' = Op("voiceSelect", uid, NoUser, NoRole,
                  IF VoiceSelect(voices, uid) = {} THEN "norows" ELSE "rows", "")
    /\ UNCHANGED <<lookups, limiter, tables, prefs, supabaseAdmin, authEmail, profiles, nextId,
                   user, userRole, pending>>

SqlPrefsUpsert(uid, user_id, lang) ==
    LET r == PrefsUpsert(prefs, uid, user_id, lang) IN
    /\ Sessioned(uid)
    /\ prefs' = r.table
    /\ last' = Op("prefsUpsert", uid, user_id, NoRole, r.outcome, "")
    /\ UNCHANGED <<lookups, limiter, tables, supabaseAdmin, authEmail, profiles, nextId,
                   user, userRole, pending>>

SqlPrefsUpdate(uid, user_id, lang) ==
    LET r == PrefsUpdate(prefs, uid, user_id, lang) IN
    /\ Sessioned(uid)
    /\ prefs' = r.table
    /\ last' = Op("prefsUpdate", uid, user_id, NoRole, r.outcome, "")
    /\ UNCHANGED <<lookups, limiter, tables, supabaseAdmin, authEmail, profiles, nextId,
                   user, userRole, pending>>

SqlPrefsDelete(uid, user_id) ==
    LET r == PrefsDelete(prefs, uid, user_id) IN
    /\ Sessioned(uid)
    /\ prefs' = r.table
    /\ last' = Op("prefsDelete", uid, user_id, NoRole, r.outcome, "")
    /\ UNCHANGED <<lookups, limiter, tables, supabaseAdmin, authEmail, profiles, nextId,
                   user, userRole, pending>>

SqlPrefsSelect(uid, user_id) ==
    /\ Sessioned(uid)
    /\ last' = Op("prefsSelect", uid, user_id, NoRole,
                  IF PrefsSelect(prefs, uid, user_id) = {}
                  THEN "norows" ELSE "rows", "")
    /\ UNCHANGED <<lookups, limiter, tables, prefs, supabaseAdmin, authEmail, profiles, nextId,
                   user, userRole, pending>>

\* ------------- handleSetActiveWebhook as the database runs it: each request
\* is a transaction (READ COMMITTED) whose statement locks its row, fires
\* enforce_single_active_webhook, writes the row and commits.  A transaction
\* sees the committed table and its own writes only.
Locks(t) == IF tx[t].pc = "idle" THEN {} ELSE {tx[t].target} \cup tx[t].off

LockedByOther(t, h) == \E o \in Txs \ {t} : h \in Locks(o)

\* UPDATE webhooks SET active = true WHERE id = <h>: the row is found under
\* the session's policies and locked for the BEFORE trigger
TxBegin(t, uid, h) ==
    /\ Sessioned(uid)
    /\ tx[t].pc = "idle"
    /\ ~LockedByOther(t, h)
    /\ IF webhooks[h] # NoRow /\ WebhooksSelectUsing(profiles, uid)
             /\ WebhooksUpdateUsing(profiles, uid)
       THEN /\ tx' = [tx EXCEPT ![t] = [pc |-> "trigger", uid |-> uid,
                                        target |-> h, cand |-> {}, off |-> {}]]
            /\ last' = Op("setActive", uid, h, NoRole, "begun", "")
       ELSE /\ tx' = tx
            /\ last' = Op("setActive", uid, h, NoRole, "norows", "")
    /\ UNCHANGED <<lookups, limiter, webhooks, voices, prefs, supabaseAdmin, authEmail, profiles,
                   nextId, user, userRole, pending>>

\* the trigger's UPDATE ... WHERE id != NEW.id AND active = true takes its
\* snapshot: the rows it will deactivate
TxTrigger(t) ==
    /\ tx[t].pc = "trigger"
    /\ tx' = [tx EXCEPT ![t].pc = "deactivate",
                        ![t].cand = get_active_webhook(webhooks) \ {tx[t].target}]
    /\ last' = Op("setActive", tx[t].uid, tx[t].target, NoRole, "snapshot", "")
    /\ UNCHANGED <<lookups, limiter, webhooks, voices, prefs, supabaseAdmin, authEmail, profiles,
                   nextId, user, userRole, pending>>

\* one row of the snapshot: it waits while another transaction holds the
\* row, and is skipped when the row as committed by then is no longer active
TxDeactivate(t, k) ==
    /\ tx[t].pc = "deactivate"
    /\ k \in tx[t].cand
    /\ ~LockedByOther(t, k)
    /\ tx' = [tx EXCEPT ![t].cand = @ \ {k},
                        ![t].off = IF webhooks[k] = "on" THEN @ \cup {k} ELSE @]
    /\ last' = Op("setActive", tx[t].uid, tx[t].target, NoRole, "deactivating", "")
    /\ UNCHANGED <<lookups, limiter, webhooks, voices, prefs, supabaseAdmin, authEmail, profiles,
                   nextId, user, userRole, pending>>

\* the trigger returned: the row is written and the transaction commits
TxCommit(t) ==
    /\ tx[t].pc = "deactivate"
    /\ tx[t].cand = {}
    /\ webhooks' = [k \in HookIds |->
                       IF k = tx[t].target THEN "on"
                       ELSE IF k \in tx[t].off THEN "off"
                       ELSE webhooks[k]]
    /\ tx' = [tx EXCEPT ![t] = NoTx]
    /\ last' = Op("setActive", tx[t].uid, tx[t].target, NoRole, "committed", "")
    /\ UNCHANGED <<lookups, limiter, voices, prefs, supabaseAdmin, authEmail, profiles,
                   nextId, user, userRole, pending>>

\* two transactions each wait for a row the other holds: the database ends
\* one of them with a deadlock error and undoes its writes
TxDeadlock(t) ==
    /\ tx[t].pc = "deactivate"
    /\ \E o \in Txs \ {t} :
          /\ tx[o].pc = "deactivate"
          /\ tx[t].cand \cap Locks(o) # {}
          /\ tx[o].cand \cap Locks(t) # {}
    /\ tx' = [tx EXCEPT ![t] = NoTx]
    /\ last' = Op("setActive", tx[t].uid, tx[t].target, NoRole, "deadlock", "")
    /\ UNCHANGED <<lookups, limiter, webhooks, voices, prefs, supabaseAdmin, authEmail, profiles,
                   nextId, user, userRole, pending>>

\* ------------------------------------- ProcessingForm: submitting the form
\* the form's fields: a PDF chosen or not, the font name, the voice id
FontInputs == {<<>>, <<" ">>, <<"R">>}
VoiceInputs == {"", "v1"}

\* googleFont.trim(): empty once the surrounding whitespace is removed
TrimIsEmpty(font) == \A k \in 1..Len(font) : IsSpace(font[k])

\* getActiveWebhook: SELECT url FROM webhooks WHERE active = true, .single(),
\* run with the session of the form's user.  The row whose url is returned;
\* NoUser (null) when the session is shown no row (PGRST116) or several.
getActiveWebhook(w, p, uid) ==
    LET rows == {h \in WebhookSelect(w, p, uid) : w[h] = "on"} IN
    IF Cardinality(rows) = 1 THEN CHOOSE h \in rows : TRUE ELSE NoUser

\* handleSubmit: the toast it ends with, and the webhook the job went to
handleSubmit(uid, pdf, font, voice) ==
    LET h == getActiveWebhook(webhooks, profiles, uid) IN
    /\ uid \in Accounts
    /\ last' = IF ~pdf
               THEN Op("handleSubmit", uid, NoUser, NoRole, "rejected",
                       "uploadPdfError")
               ELSE IF TrimIsEmpty(font)
               THEN Op("handleSubmit", uid, NoUser, NoRole, "rejected",
                       "selectFontError")
               ELSE IF voice = ""
               THEN Op("handleSubmit", uid, NoUser, NoRole, "rejected",
                       "selectVoiceError")
               ELSE IF h = NoUser
               THEN Op("handleSubmit", uid, NoUser, NoRole, "rejected",
                       "configureWebhookError")
               ELSE Op("handleSubmit", uid, h, NoRole, "posted", "")
    /\ UNCHANGED <<lookups, limiter, tables, prefs, supabaseAdmin, authEmail, profiles,
                   nextId, user, userRole, pending>>

\* ------------------ 001/002 migrations: the trigger functions run by hand
\* handle_new_user with NEW.id = id, for an account of auth.users
InvokeHandleNewUser(id) ==
    LET e == handle_new_user_error(profiles, id) IN
    /\ id \in Accounts
    /\ profiles' = handle_new_user(profiles, id)
    /\ last' = Op("handle_new_user", NoUser, id, NoRole,
                  IF e = "" THEN "ok" ELSE "error", e)
    /\ UNCHANGED <<lookups, limiter, tables, prefs, supabaseAdmin, authEmail, nextId,
                   user, userRole, pending>>

\* handle_new_user_preferences with NEW.id = id
InvokeHandleNewUserPreferences(id) ==
    /\ id \in Accounts
    /\ prefs' = handle_new_user_preferences(prefs, id)
    /\ last' = Op("handle_new_user_preferences", NoUser, id, NoRole, "ok", "")
    /\ UNCHANGED <<lookups, limiter, tables, supabaseAdmin, authEmail, profiles, nextId,
                   user, userRole, pending>>

\* ------------------------------------------------------------ specification
Callers == Ids \cup {NoUser}

\* the credential a request carries: none, or that of the account the panel
\* is open in (the handlers never read it)
ApiCallers == Sessions \cup {NoUser}

\* what the panel's session can observe of another client's operation
Brief(l) == Op(l.op, NoUser, NoUser, NoRole, l.status, "")

\* the admin panel of one session, among other clients of the endpoints and
\* of the table
Next ==
    \/ \E s \in Sessions, f \in BOOLEAN : SignIn(s, f)
    \/ \E s \in Sessions : SignOut(s)
    \/ \E s \in Sessions, b \in DialogBodies, f \in BOOLEAN : createUser(s, b, f)
    \/ \E s \in Sessions, i \in Ids, r \in Roles : updateUserRoleCheck(s, i, r)
    \/ \E s \in Sessions : updateUserRoleWrite(s)
    \/ \E s \in Sessions, i \in Ids : deleteUserCheck(s, i)
    \/ \E s \in Sessions : deleteUserRequest(s)
    \/ \E s \in Sessions : getAllUsers(s)
    \/ \E c \in ApiCallers, b \in DialogBodies, f \in BOOLEAN :
          RequestCreateUser(c, b, f) /\ last' = Brief(LogCreate(c, b, f))
    \/ \E c \in ApiCallers, u \in UserIdInputs :
          RequestDeleteUser(c, u) /\ last' = Brief(LogDelete(c, u))
    \/ \E u \in Ids, i \in Ids, r \in Roles :
          SqlUpdate(u, i, r) /\ last' = Brief(LogUpdate(u, i, r))

Spec == Init /\ [][Next]_vars

\* the two endpoints alone, with every request body
NextApi ==
    \/ \E c \in ApiCallers, b \in Bodies, f \in BOOLEAN :
          RequestCreateUser(c, b, f) /\ last' = LogCreate(c, b, f)
    \/ \E c \in ApiCallers, u \in UserIdInputs :
          RequestDeleteUser(c, u) /\ last' = LogDelete(c, u)

SpecApi == Init /\ [][NextApi]_vars

\* the profiles table alone, under the statements of authenticated sessions
NextSql ==
    \/ \E u \in Ids, i \in Ids, r \in Roles :
          SqlUpdate(u, i, r) /\ last' = LogUpdate(u, i, r)
    \/ \E u \in Ids, i \in Ids, r \in Roles :
          SqlInsert(u, i, r) /\ last' = LogInsert(u, i, r)
    \/ \E u \in Ids, i \in Ids : SqlDelete(u, i) /\ last' = LogDeleteRow(u, i)

SpecSql == Init /\ [][NextSql]_vars

\* the settings tables alone, under the statements of any session
LanguageInputs == Languages \cup {"de"}

NextSettings ==
    \/ \E u \in Callers, h \in HookIds, a \in BOOLEAN : SqlWebhookInsert(u, h, a)
    \/ \E u \in Callers, h \in HookIds, a \in BOOLEAN : SqlWebhookUpdate(u, h, a)
    \/ \E u \in Callers, h \in HookIds : SqlWebhookDelete(u, h)
    \/ \E u \in Callers : SqlWebhookSelect(u)
    \/ \E u \in Callers : RpcGetActiveWebhook(u)
    \/ \E u \in Callers, v \in VoiceIds : SqlVoiceInsert(u, v)
    \/ \E u \in Callers, v \in VoiceIds : SqlVoiceUpdate(u, v)
    \/ \E u \in Callers, v \in VoiceIds : SqlVoiceDelete(u, v)
    \/ \E u \in Callers : SqlVoiceSelect(u)
    \/ \E u \in Callers, i \in Ids, l \in LanguageInputs : SqlPrefsUpsert(u, i, l)
    \/ \E u \in Callers, i \in Ids, l \in LanguageInputs : SqlPrefsUpdate(u, i, l)
    \/ \E u \in Callers, i \in Ids : SqlPrefsDelete(u, i)
    \/ \E u \in Callers, i \in Ids : SqlPrefsSelect(u, i)

\* the server plays no part here: its client is taken as configured
InitSettings == Init /\ supabaseAdmin

SpecSettings == InitSettings /\ [][NextSettings]_vars

\* the webhooks table alone, its statements run one after another
NextHooks ==
    \/ \E u \in Callers, h \in HookIds, a \in BOOLEAN : SqlWebhookInsert(u, h, a)
    \/ \E u \in Callers, h \in HookIds, a \in BOOLEAN : SqlWebhookUpdate(u, h, a)
    \/ \E u \in Callers, h \in HookIds : SqlWebhookDelete(u, h)

SpecHooks == InitSettings /\ [][NextHooks]_vars

\* set-active requests served at the same time, on a table that holds its
\* rows already, at most one of them active
InitHooksTx ==
    /\ InitAccounts
    /\ supabaseAdmin
    /\ \E w \in [HookIds -> {"on", "off"}] :
          /\ Cardinality({h \in HookIds : w[h] = "on"}) <= 1
          /\ webhooks = w

NextHooksTx ==
    \/ \E t \in Txs, u \in Callers, h \in HookIds : TxBegin(t, u, h)
    \/ \E t \in Txs : TxTrigger(t)
    \/ \E t \in Txs, k \in HookIds : TxDeactivate(t, k)
    \/ \E t \in Txs : TxCommit(t)
    \/ \E t \in Txs : TxDeadlock(t)

SpecHooksTx == InitHooksTx /\ [][NextHooksTx]_vars

\* the two endpoints behind their limiters
LimiterBodies ==
    {[email |-> EmailC, pwLen |-> MinPasswordLen, role |-> "user"],
     [email |-> <<>>, pwLen |-> MinPasswordLen, role |-> "admin"]}

InitLimiter ==
    /\ Init
    /\ supabaseAdmin
    /\ profiles[1] = "owner"
    /\ profiles[2] = "user"

NextLimiter ==
    \/ \E ip \in Ips, c \in {NoUser, 1}, b \in LimiterBodies, f \in BOOLEAN,
          a \in BOOLEAN : LimitedCreateUser(ip, c, b, f, a)
    \/ \E ip \in Ips, c \in {NoUser, 1}, u \in UserIdInputs, a \in BOOLEAN :
          LimitedDeleteUser(ip, c, u, a)
    \/ \E ip \in Ips : WindowExpires(ip)

SpecLimiter == InitLimiter /\ [][NextLimiter]_vars

\* the processing form of any account, while admins and owners manage the
\* webhooks
NextSubmit ==
    \/ \E u \in Callers, h \in HookIds, a \in BOOLEAN : SqlWebhookInsert(u, h, a)
    \/ \E u \in Callers, h \in HookIds, a \in BOOLEAN : SqlWebhookUpdate(u, h, a)
    \/ \E u \in Callers, h \in HookIds : SqlWebhookDelete(u, h)
    \/ \E u \in Ids, pdf \in BOOLEAN, f \in FontInputs, v \in VoiceInputs :
          handleSubmit(u, pdf, f, v)

SpecSubmit == InitSettings /\ [][NextSubmit]_vars

\* the two trigger functions, among the statements of sessions on profiles
\* and on their preferences
NextTriggers ==
    \/ \E i \in Ids : InvokeHandleNewUser(i)
    \/ \E i \in Ids : InvokeHandleNewUserPreferences(i)
    \/ \E u \in Ids, i \in Ids, r \in Roles :
          SqlUpdate(u, i, r) /\ last' = LogUpdate(u, i, r)
    \/ \E u \in Ids, i \in Ids : SqlDelete(u, i) /\ last' = LogDeleteRow(u, i)
    \/ \E u \in Ids, l \in Languages : SqlPrefsUpsert(u, u, l)
    \/ \E u \in Ids : SqlPrefsDelete(u, u)

SpecTriggers == InitSettings /\ [][NextTriggers]_vars

\* the admin panel alone: only its own operations change the stores
NextClient ==
    \/ \E s \in Sessions, f \in BOOLEAN : SignIn(s, f)
    \/ \E s \in Sessions : SignOut(s)
    \/ \E s \in Sessions, b \in DialogBodies, f \in BOOLEAN : createUser(s, b, f)
    \/ \E s \in Sessions, i \in Ids, r \in Roles : updateUserRoleCheck(s, i, r)
    \/ \E s \in Sessions : updateUserRoleWrite(s)
    \/ \E s \in Sessions, i \in Ids : deleteUserCheck(s, i)
    \/ \E s \in Sessions : deleteUserRequest(s)

SpecClient == InitSettings /\ [][NextClient]_vars

\* the role effect of the admin panel with its lookups in flight, while
\* other clients change roles
NextLookup ==
    \/ \E s \in Sessions, u \in Ids : SignInStart(s, u)
    \/ \E s \in Sessions, u \in Ids, f \in BOOLEAN : fetchUserRoleResolve(s, u, f)
    \/ \E s \in Sessions : SignOut(s)
    \/ \E s \in Sessions : getAllUsers(s)
    \/ \E u \in Ids, i \in Ids, r \in Roles :
          SqlUpdate(u, i, r) /\ last' = Brief(LogUpdate(u, i, r))

SpecLookup == InitSettings /\ [][NextLookup]_vars

\* =================================================================== claims
Owners(p) == {i \in Ids : p[i] = "owner"}

ValidationErrors ==
    {"notConfigured", "missingFields", "invalidEmail", "passwordShort",
     "passwordLong", "invalidRole"}

\* C1: no create-user request and no updateUserRole call, whoever issues it,
\* makes an account owner that was not owner before.
C1_NoOwnerMinted ==
    [][last'.op \in {"POST", "createUser", "updateUserRole"}
          => Owners(profiles') \subseteq Owners(profiles)]_vars

\* an account was created through the endpoint, an owner's role change of
\* another account went through, and the owner set did not grow
C1_Witness ==
    /\ last.op = "updateUserRole"
    /\ last.error = "ok"
    /\ last.actor # last.target
    /\ profiles[last.actor] = "owner"
    /\ profiles[last.target] = "admin"
    /\ \E i \in Accounts \ InitialAccounts : profiles[i] \in {"admin", "user"}

\* C2 (as claimed): a create-user or delete-user request that carries no
\* valid session credential is rejected: it is not answered 200 and it
\* neither creates nor deletes an account.
C2_NoSessionRejected ==
    [][(last'.op \in {"POST", "DELETE"} /\ last'.actor = NoUser)
          => /\ last'.status # "200"
             /\ authEmail' = authEmail
             /\ profiles' = profiles]_vars

\* C3 (as claimed): a well-formed create-user request for role admin sent
\* with the credential of an admin is answered 403 and creates no account.
C3_AdminCannotCreateAdmin ==
    [][(/\ last'.op = "POST"
        /\ RowRole(profiles, last'.actor) = "admin"
        /\ last'.role = "admin"
        /\ last'.error \notin ValidationErrors)
          => /\ last'.status = "403"
             /\ authEmail' = authEmail]_vars

\* C4 (as claimed): a delete-user request sent with the credential of an
\* admin for another account whose role is admin is answered 403 and the
\* target account still exists.
C4_AdminCannotDeleteAdmin ==
    [][(/\ last'.op = "DELETE"
        /\ supabaseAdmin
        /\ RowRole(profiles, last'.actor) = "admin"
        /\ RowRole(profiles, last'.target) = "admin"
        /\ last'.actor # last'.target)
          => /\ last'.status = "403"
             /\ authEmail'[last'.target] = authEmail[last'.target]]_vars

\* C5 (as claimed): an updateUserRole call whose target is the caller's own
\* account never reports success and never changes the caller's role.
C5_NoSelfRoleChange ==
    [][(/\ last'.op = "updateUserRole"
        /\ last'.actor # NoUser
        /\ last'.actor = last'.target)
          => /\ last'.status # "ok"
             /\ profiles'[last'.target] = profiles[last'.target]]_vars

\* C6 (as claimed): a delete-user request whose target is the caller's own
\* account never succeeds, and the caller's account still exists afterwards.
C6_NoSelfDelete ==
    [][(/\ last'.op = "DELETE"
        /\ last'.actor # NoUser
        /\ last'.actor = last'.target)
          => /\ last'.status # "200"
             /\ authEmail'[last'.target] = authEmail[last'.target]]_vars

\* C7 (as claimed): an owner may not delete another owner, neither by the
\* client's canKickUser nor under the DELETE policies on profiles.
C7_OwnerCannotDeleteOwner ==
    [][/\ ~canKickUser("owner", "owner")
       /\ (/\ last'.op = "sqlDelete"
           /\ RowRole(profiles, last'.actor) = "owner"
           /\ RowRole(profiles, last'.target) = "owner"
           /\ last'.actor # last'.target)
             => profiles'[last'.target] = profiles[last'.target]]_vars

C9_PoliciesMintNoOwner ==
    [][last'.op \in {"sqlUpdate", "sqlInsert"}
          => Owners(profiles') \subseteq Owners(profiles)]_vars

\* C10 (as claimed): every account can update its own profile row, and no
\* update an account runs on its own row changes the row's role.
C10_OwnRowRoleFixed ==
    [][/\ \A u \in Ids : profiles[u] # NoProfile
             => RlsUpdate(profiles, u, u, profiles[u]).outcome = "ok"
       /\ (last'.op = "sqlUpdate" /\ last'.actor = last'.target)
             => profiles'[last'.target] = profiles[last'.target]]_vars

\* requests the validators of the create-user handler turn away
InputErrors ==
    {"missingFields", "invalidEmail", "passwordShort", "passwordLong",
     "invalidRole"}

\* C11: with the service client configured, a create-user request for role
\* owner whose email and password pass validation is answered 403 with the
\* owner-restriction message, whoever the caller is, and the identity
\* provider is not called: no account, no profile, no id issued.
C11_OwnerRequestRestricted ==
    [][(/\ last'.op = "POST"
        /\ supabaseAdmin
        /\ last'.role = "owner"
        /\ last'.error \notin InputErrors)
          => /\ last'.status = "403"
             /\ last'.error = "ownerRestricted"
             /\ authEmail' = authEmail
             /\ profiles' = profiles
             /\ nextId' = nextId]_vars

\* an owner's request for a new owner was answered 403 after an account had
\* been created through the endpoint
C11_Witness ==
    /\ last.op = "POST"
    /\ last.role = "owner"
    /\ last.status = "403"
    /\ RowRole(profiles, last.actor) = "owner"
    /\ nextId > 3

\* C12: when the account was created and the profile role update then
\* failed, create-user answers 500 with the new account's id; the account
\* stays in the identity store, with a profile of role user, and one id was
\* issued (no rollback, no second attempt).
C12_PartialFailureKeepsAccount ==
    [][(last'.op = "POST" /\ last'.error = "roleAssignFailed")
          => /\ last'.status = "500"
             /\ last'.target = nextId
             /\ authEmail[last'.target] = NoEmail
             /\ authEmail'[last'.target] # NoEmail
             /\ profiles'[last'.target] = "user"
             /\ nextId' = nextId + 1
             /\ \A i \in Ids \ {last'.target} :
                   authEmail'[i] = authEmail[i] /\ profiles'[i] = profiles[i]]_vars

\* a request for an admin account ended 500 and left the account as user
C12_Witness ==
    /\ last.op = "POST"
    /\ last.status = "500"
    /\ last.role = "admin"
    /\ last.target \in Accounts
    /\ profiles[last.target] = "user"

\* C13: when the service client is not configured, every create-user and
\* delete-user request is answered 503, whatever its body or path parameter,
\* and neither the identity store nor the profiles table is touched.
C13_UnconfiguredAnswers503 ==
    [][(last'.op \in {"POST", "DELETE"} /\ ~supabaseAdmin)
          => /\ last'.status = "503"
             /\ authEmail' = authEmail
             /\ profiles' = profiles
             /\ nextId' = nextId]_vars

\* a delete-user request for an existing account was answered 503
C13_Witness ==
    /\ ~supabaseAdmin
    /\ last.op = "DELETE"
    /\ last.status = "503"
    /\ last.target \in Accounts

\* C14: a session whose role is unknown (null) is refused every decision:
\* canManageUser and canKickUser are false for every target, and createUser,
\* updateUserRole, deleteUser and getAllUsers are rejected at their checks and
\* change nothing; and a sign-in whose role lookup fails leaves the session
\* with role user.
C14_UnknownRoleFailsClosed ==
    [][/\ \A r \in Roles \cup {NoProfile} :
             ~canManageUser(NoRole, r) /\ ~canKickUser(NoRole, r)
       /\ ~isAdmin(NoRole)
       /\ \A s \in Sessions :
             (/\ userRole[s] = NoRole
              /\ pending[s] = NoPending
              /\ last'.op \in {"createUser", "updateUserRole", "deleteUser",
                               "getAllUsers"})
                => /\ last'.status = "rejected"
                   /\ pending'[s] = NoPending
                   /\ authEmail' = authEmail
                   /\ profiles' = profiles
       /\ (last'.op = "signIn" /\ last'.error = "lookupFailed")
             => userRole'[last'.actor] = "user"]_vars

\* with no role known, the deletion of a user-role account was refused
C14_Witness ==
    /\ last.op = "deleteUser"
    /\ last.status = "rejected"
    /\ \A s \in Sessions : userRole[s] = NoRole
    /\ RowRole(profiles, last.target) = "user"

\* C15 (as claimed): in every reachable state every account has a profile
\* row (exactly one: id is the primary key), no profile is left without its
\* account, and every profile's role is owner, admin or user.
C15_OneProfilePerAccount ==
    \A i \in Ids :
        /\ authEmail[i] # NoEmail => profiles[i] \in Roles
        /\ authEmail[i] = NoEmail => profiles[i] = NoProfile

ActiveHooks(w) == {h \in HookIds : w[h] = "on"}

\* C16: after any sequence of statements on webhooks (inserts, updates that
\* set or clear active, deletes), at most one row has active = true.
C16_AtMostOneActive == Cardinality(ActiveHooks(webhooks)) <= 1

\* a set-active update went through and its trigger switched the row that
\* was active before to inactive
C16_Witness ==
    /\ last.op = "webhookUpdate"
    /\ last.status = "ok"
    /\ last.error = "deactivated"
    /\ Cardinality(ActiveHooks(webhooks)) = 1
    /\ \E k \in HookIds : webhooks[k] = "off"

\* C17 (as claimed): when set-active requests for different webhooks run at
\* the same time, each commit leaves exactly one webhook active, the one the
\* committing request set.
C17_LastWriterOnlyActive ==
    [][(last'.op = "setActive" /\ last'.status = "committed")
          => ActiveHooks(webhooks') = {last'.target}]_vars

\* C18: in one window at most AuthMax (5) requests of one address reach the
\* create-user and delete-user handlers; a request that finds the address's
\* count at the limit is answered 429 and the handler does not run; the
\* addresses are counted apart; and when the window ends the count is zero.
C18_FiveRequestsPerWindow ==
    [][/\ \A ip \in Ips : reached'[ip] <= AuthMax
       /\ \A ip \in Ips :
             (hits'[ip] = hits[ip] + 1)
                => /\ \A o \in Ips \ {ip} : hits'[o] = hits[o]
                   /\ hits[ip] >= AuthMax
                         => /\ last'.status = "429"
                            /\ authEmail' = authEmail
                            /\ profiles' = profiles
                            /\ nextId' = nextId
                   /\ hits[ip] < AuthMax => reached'[ip] = reached[ip] + 1
       /\ last'.op = "windowExpires"
             => \E ip \in Ips : hits[ip] > 0 /\ hits'[ip] = 0 /\ reached'[ip] = 0]_vars

\* a sixth request of one address was answered 429 after five had reached
\* the handlers, while the other address is still below the limit
C18_Witness ==
    /\ last.status = "429"
    /\ \E ip \in Ips :
          /\ hits[ip] = AuthMax + 1
          /\ reached[ip] = AuthMax
          /\ \E o \in Ips \ {ip} : hits[o] > 0 /\ hits[o] < AuthMax

\* C19: when a delete-user request is answered 200, the account existed and
\* is gone, and so are its profile row and its user_preferences row; a
\* lookup of the profile by any session then finds no row, and no deleted
\* account has a profile or preferences left.
C19_DeleteCascades ==
    [][(last'.op = "DELETE" /\ last'.status = "200")
          => /\ authEmail[last'.target] # NoEmail
             /\ authEmail'[last'.target] = NoEmail
             /\ profiles'[last'.target] = NoProfile
             /\ prefs'[last'.target] = NoRow
             /\ \A u \in Callers :
                   RlsSelectRole(profiles', u, last'.target) = NoProfile
             /\ \A i \in Ids :
                   authEmail'[i] = NoEmail
                      => profiles'[i] = NoProfile /\ prefs'[i] = NoRow]_vars

\* an account created through the endpoint, with its profile and its
\* preferences, was deleted again
C19_Witness ==
    /\ last.op = "DELETE"
    /\ last.status = "200"
    /\ last.target \notin InitialAccounts
    /\ authEmail[last.target] = NoEmail
    /\ prefs[last.target] = NoRow
    /\ \E i \in InitialAccounts : prefs[i] # NoRow

WebhookOps ==
    {"webhookSelect", "webhookInsert", "webhookUpdate", "webhookDelete",
     "get_active_webhook"}

VoiceWrites == {"voiceInsert", "voiceUpdate", "voiceDelete"}

PrefsOps == {"prefsSelect", "prefsUpsert", "prefsUpdate", "prefsDelete"}

\* the statement returned rows or changed some
TookEffect(l) == l.status \in {"ok", "rows"}

\* C20 (as claimed): a session reads or writes webhook rows only if its
\* account's role is admin or owner; it writes voice rows only if its role is
\* admin or owner, and reads them whenever it is authenticated; it reads or
\* writes a user_preferences row only if the row is its own.
C20_SettingsAccess ==
    [][/\ (last'.op \in WebhookOps /\ TookEffect(last'))
             => RowRole(profiles, last'.actor) \in {"admin", "owner"}
       /\ (last'.op \in VoiceWrites /\ TookEffect(last'))
             => RowRole(profiles, last'.actor) \in {"admin", "owner"}
       /\ (last'.op = "voiceSelect" /\ last'.actor # NoUser
              /\ \E v \in VoiceIds : voices[v])
             => last'.status = "rows"
       /\ (last'.op = "voiceSelect" /\ TookEffect(last'))
             => last'.actor # NoUser
       /\ (last'.op \in PrefsOps /\ TookEffect(last'))
             => last'.actor # NoUser /\ last'.actor = last'.target]_vars

\* the submit failures that come from the form's own fields
FormErrors == {"uploadPdfError", "selectFontError", "selectVoiceError"}

\* C21 (as claimed): when an account whose role is user submits the form with
\* a PDF, a font and a voice chosen while some webhook is active, the job is
\* POSTed to an active webhook.
C21_UserJobPosted ==
    [][(/\ last'.op = "handleSubmit"
        /\ RowRole(profiles, last'.actor) = "user"
        /\ last'.error \notin FormErrors
        /\ ActiveHooks(webhooks) # {})
          => /\ last'.status = "posted"
             /\ last'.target \in ActiveHooks(webhooks)]_vars

\* the checks of the create-user handler in the order the handler is said to
\* apply them, each with the status and the errors it answers with
CheckFails(body) ==
    <<~supabaseAdmin,
      body.email = <<>> \/ body.pwLen = 0 \/ body.role = "",
      ~validateEmail(body.email),
      body.pwLen < MinPasswordLen \/ body.pwLen > MaxPasswordLen,
      ~validateRole(body.role),
      body.role = "owner">>

CheckStatus == <<"503", "400", "400", "400", "400", "403">>

CheckErrors ==
    <<{"notConfigured"}, {"missingFields"}, {"invalidEmail"},
      {"passwordShort", "passwordLong"}, {"invalidRole"}, {"ownerRestricted"}>>

\* C22: for every request body, the create-user handler answers with the
\* status and error of the earliest check the body fails, in the order:
\* not configured (503), field missing (400), email invalid (400), password
\* shorter than 6 or longer than 128 (400), role unrecognized (400), role
\* owner (403); a body that fails none is answered by none of them.
C22_ChecksInOrder ==
    \A b \in Bodies, f \in BOOLEAN :
        LET r == PostUsers(b, f)
            fails == CheckFails(b)
            failing == {k \in 1..6 : fails[k]}
        IN  IF failing = {}
            THEN \A k \in 1..6 : r.error \notin CheckErrors[k]
            ELSE LET first == CHOOSE k \in failing : \A j \in failing : k <= j
                 IN  /\ r.status = CheckStatus[first]
                     /\ r.error \in CheckErrors[first]
                     /\ first = 4 =>
                           (r.error = "passwordShort") = (b.pwLen < MinPasswordLen)

\* a request for role owner whose password is too long was answered with the
\* password's 400, not the 403 of the later owner check
C22_Witness ==
    /\ last.op = "POST"
    /\ last.role = "owner"
    /\ last.status = "400"
    /\ last.error = "passwordLong"
    /\ supabaseAdmin

\* C23: a create-user or delete-user request answered 400, 403 or 503 leaves
\* the identity store, the profiles table and the preferences as they were,
\* and no account id is issued for it.
C23_RejectedChangesNothing ==
    [][(last'.op \in {"POST", "DELETE"} /\ last'.status \in {"400", "403", "503"})
          => /\ authEmail' = authEmail
             /\ profiles' = profiles
             /\ prefs' = prefs
             /\ nextId' = nextId]_vars

\* a request with an unrecognized role was answered 400 while an account
\* created through the endpoint exists
C23_Witness ==
    /\ last.op = "POST"
    /\ last.status = "400"
    /\ last.error = "invalidRole"
    /\ Accounts \ InitialAccounts # {}

\* C24: when create-user answers 200 for a request with role r, r is admin
\* or user, the id in the response is that of the account just created, the
\* account carries the request's email, and its profile has role r.
C24_CreatedWithRequestedRole ==
    [][(last'.op = "POST" /\ last'.status = "200")
          => /\ last'.role \in {"admin", "user"}
             /\ last'.target = nextId
             /\ authEmail[last'.target] = NoEmail
             /\ authEmail'[last'.target] # NoEmail
             /\ profiles'[last'.target] = last'.role
             /\ \A b \in Bodies :
                   LET r == PostUsers(b, FALSE) IN
                   r.status = "200"
                      => /\ r.id = nextId
                         /\ r.auth[r.id] = b.email
                         /\ r.table[r.id] = b.role]_vars

\* an account requested with role admin was created and has role admin
C24_Witness ==
    /\ last.op = "POST"
    /\ last.status = "200"
    /\ last.role = "admin"
    /\ last.target \in Accounts \ InitialAccounts
    /\ profiles[last.target] = "admin"

\* well-formed requests for an email that may have an account already
RetryBodies == [email : {EmailA, EmailC}, pwLen : {MinPasswordLen},
                role : {"admin", "user"}]

AccountsOf(auth, email) == {i \in Ids : auth[i] = email}

C26_AutoCreationIdempotent ==
    [][/\ (last'.op = "handle_new_user" /\ profiles[last'.target] # NoProfile)
             => /\ last'.status = "ok"
                /\ last'.error = ""
                /\ profiles' = profiles
       /\ (last'.op = "handle_new_user_preferences"
              /\ prefs[last'.target] # NoRow)
             => /\ last'.status = "ok"
                /\ prefs' = prefs]_vars

\* C27: with the service client configured, a delete-user request whose
\* userId is not of UUID shape is answered 400 for its format, and no account
\* is looked up or deleted for it.
C27_MalformedIdRejected ==
    [][(last'.op = "DELETE" /\ supabaseAdmin)
          => /\ \A str \in MalformedUserIds :
                   LET r == DeleteUsers(ParseUserId(str)) IN
                   /\ r.status = "400"
                   /\ r.error = "invalidId"
                   /\ r.auth = authEmail
                   /\ r.table = profiles
             /\ last'.error = "invalidId"
                   => /\ last'.status = "400"
                      /\ authEmail' = authEmail
                      /\ profiles' = profiles
                      /\ prefs' = prefs]_vars

\* a malformed id was answered 400 while an account created through the
\* endpoint exists
C27_Witness ==
    /\ last.op = "DELETE"
    /\ last.status = "400"
    /\ last.error = "invalidId"
    /\ last.target = NoUser
    /\ Accounts \ InitialAccounts # {}

\* C28 (as claimed): while some account has role owner, no createUser,
\* updateUserRole or deleteUser call of the admin panel leaves the system
\* without an owner.
C28_OwnerRemains ==
    [][(/\ last'.op \in {"createUser", "updateUserRole", "deleteUser"}
        /\ Owners(profiles) # {})
          => Owners(profiles') # {}]_vars

\* C29 (as claimed): when the actor is an admin (in the panel's userRole and
\* in the profiles table), a deleteUser call that the server answers 200
\* removes an account whose role, at the moment of the deletion, is neither
\* admin nor owner.
C29_AdminDeletesOnlyUsers ==
    [][(/\ last'.op = "deleteUser"
        /\ last'.status = "200"
        /\ \E s \in Sessions :
              /\ user[s] = last'.actor
              /\ userRole[s] = "admin"
              /\ RowRole(profiles, user[s]) = "admin")
          => profiles[last'.target] \notin {"admin", "owner"}]_vars

\* C30 (as claimed): whenever no user is signed in and no role lookup is in
\* flight, userRole is null and isAdmin is false.
C30_NoStaleRole ==
    \A s \in Sessions :
        (user[s] = NoUser /\ lookups[s] = {})
           => /\ userRole[s] = NoRole
              /\ ~isAdmin(userRole[s])

====
